---- MODULE Spec2Model ----
(***************************************************************************)
(* Model of daily_gui.py: the DailyGUI widget (coordinating context, the   *)
(* Qt main thread), the EncodeThread worker, the child encoder process     *)
(* with its two pipes, and the files the program touches.                  *)
(*                                                                         *)
(* Text is modelled as sequences of one-character strings, a YAML document *)
(* as the ordered sequence of its groups and items, and the in-memory      *)
(* configuration as a mapping of mappings.                                 *)
(***************************************************************************)
EXTENDS Integers, Sequences, FiniteSets, TLC

(***************************************************************************)
(* Bounds of the model.                                                    *)
(***************************************************************************)
\* lines the child writes to its error stream in one run
MaxErrLines == 2
\* chunks the child writes to its standard output in one run
MaxOutChunks == 2
\* chunks an OS pipe holds before a writer blocks
PipeCap == 1
\* invocations of generate_daily that get as far as creating a temp file
MaxRuns == 2
\* largest value the operator types into a spin box
MaxEdit == 2
\* files a folder holds at most
MaxFiles == 3

(***************************************************************************)
(* Program constants.                                                      *)
(***************************************************************************)
\* QSpinBox range of out_width / out_height
SpinMin == 1
SpinMax == 16384

(***************************************************************************)
(* Characters and text helpers.                                            *)
(***************************************************************************)
DigitChars == <<"0", "1", "2", "3", "4", "5", "6", "7", "8", "9">>

\* str.strip() with no argument strips these
Whitespace == {" ", "\n", "\t", "\r"}

IsDigit(c) == \E i \in 1..10 : DigitChars[i] = c

DigitVal(c) == (CHOOSE i \in 1..10 : DigitChars[i] = c) - 1

RECURSIVE int(_)
\* int(str) of a non-empty run of decimal digits
int(s) ==
    IF Len(s) = 0 THEN 0
    ELSE 10 * int(SubSeq(s, 1, Len(s) - 1)) + DigitVal(s[Len(s)])

RECURSIVE lstrip(_)
lstrip(s) ==
    IF Len(s) > 0 /\ s[1] \in Whitespace THEN lstrip(Tail(s)) ELSE s

RECURSIVE rstrip(_)
rstrip(s) ==
    IF Len(s) > 0 /\ s[Len(s)] \in Whitespace
    THEN rstrip(SubSeq(s, 1, Len(s) - 1)) ELSE s

strip(s) == rstrip(lstrip(s))

RECURSIVE DigitsEnd(_, _)
\* first index >= i of s that does not hold a digit (Len(s)+1 if none): the
\* end of the greedy \d+ run that starts at i
DigitsEnd(s, i) ==
    IF i <= Len(s) /\ IsDigit(s[i]) THEN DigitsEnd(s, i + 1) ELSE i

(***************************************************************************)
(* The progress protocol: progress_re = ^PROGRESS (\d+) (\d+) (.+)$        *)
(***************************************************************************)
PROGRESS == <<"P", "R", "O", "G", "R", "E", "S", "S">>

NoMatch == [ok |-> FALSE, frame |-> 0, total |-> 0, img_data |-> <<>>]

\* progress_re.match(s): the groups of the match, or NoMatch
progress_re(s) ==
    LET n  == Len(s)
        e1 == DigitsEnd(s, 10)
        e2 == DigitsEnd(s, e1 + 1)
    IN  IF n < 9 \/ SubSeq(s, 1, 9) # PROGRESS \o <<" ">> THEN NoMatch
        ELSE IF e1 = 10 \/ e1 > n \/ s[e1] # " " THEN NoMatch
        ELSE IF e2 = e1 + 1 \/ e2 > n \/ s[e2] # " " THEN NoMatch
        ELSE IF e2 + 1 > n THEN NoMatch
        ELSE IF \E i \in (e2 + 1)..(n - 1) : s[i] = "\n" THEN NoMatch
        ELSE IF s[n] = "\n" /\ e2 + 1 = n THEN NoMatch
        ELSE [ok       |-> TRUE,
              frame    |-> int(SubSeq(s, 10, e1 - 1)),
              total    |-> int(SubSeq(s, e1 + 1, e2 - 1)),
              img_data |-> IF s[n] = "\n" THEN SubSeq(s, e2 + 1, n - 1)
                           ELSE SubSeq(s, e2 + 1, n)]

\* lines 44-49: what one line read from the error stream makes the worker emit
ParseLine(line) == progress_re(strip(line))

\* The lines a child may write to its error stream, each ending in a newline.
ErrLines ==
    << PROGRESS \o <<" ", "1", " ", "2", " ", "A", "\n">>,
       PROGRESS \o <<" ", "2", " ", "2", " ", "B", "\n">>,
       <<"E", "R", "R", "\n">> >>

LineIds == 1..Len(ErrLines)

\* Further lines a child may write: a progress line after a space, one with a
\* space before the newline, one with total 0, one with several digits and a
\* longer payload, one with two spaces after the token, one without payload,
\* one after another character, and plain text.
OddLines ==
    << <<" ">> \o PROGRESS \o <<" ", "1", " ", "2", " ", "A", "\n">>,
       PROGRESS \o <<" ", "1", " ", "2", " ", "A", " ", "\n">>,
       PROGRESS \o <<" ", "3", " ", "0", " ", "C", "\n">>,
       PROGRESS \o <<" ", "1", "2", " ", "2", "4", "0", " ",
                     "A", "A", "A", "A", "=", "=", "\n">>,
       PROGRESS \o <<" ", " ", "1", " ", "2", " ", "A", "\n">>,
       PROGRESS \o <<" ", "1", " ", "2", "\n">>,
       <<"X">> \o PROGRESS \o <<" ", "1", " ", "2", " ", "A", "\n">>,
       <<"N", "O", "T", " ", "A", " ", "L", "I", "N", "E", "\n">> >>

\* every line of the model; a pipe holds the index of a line
AllLines == ErrLines \o OddLines

(***************************************************************************)
(* YAML documents and configurations.                                      *)
(*                                                                         *)
(* A document is the text of a YAML file: the sequence of its top-level    *)
(* groups in file order, each with its items in file order.  A             *)
(* configuration is what yaml.safe_load returns: a mapping from group      *)
(* names to mappings from keys to values.                                  *)
(***************************************************************************)
\* every group and key name of the model, in the order Python sorts strings
SortedNames ==
    <<"fit", "globals", "h264", "height", "input_image_formats", "note",
      "output_codec", "output_codecs", "prores", "width", "x_studio">>

Item(k, v) == [key |-> k, val |-> v]

Group(n, its) == [name |-> n, items |-> its]

\* the base configuration files the program may be installed with
BaseDocs ==
    << \* keys in an order that is not sorted, an extension group, globals
       \* with width but without height and fit
       << Group("output_codecs", << Item("prores", "yuv422"),
                                    Item("h264", "yuv420") >>),
          Group("globals", << Item("width", 8),
                              Item("output_codec", "h264") >>),
          Group("x_studio", << Item("note", "keep") >>) >>,
       \* no globals group at all
       << Group("output_codecs", << Item("h264", "yuv420") >>) >> >>

\* yaml.safe_load(document)
yaml_safe_load(doc) ==
    [g \in {doc[i].name : i \in DOMAIN doc} |->
        LET its == doc[CHOOSE i \in DOMAIN doc : doc[i].name = g].items
        IN  [k \in {its[j].key : j \in DOMAIN its} |->
                its[CHOOSE j \in DOMAIN its : its[j].key = k].val]]

\* the keys of a mapping in the order yaml.safe_dump writes them
\* (sort_keys defaults to True)
sorted_keys(m) == SelectSeq(SortedNames, LAMBDA n : n \in DOMAIN m)

\* yaml.safe_dump(config): the document written
yaml_safe_dump(config) ==
    LET gs == sorted_keys(config)
    IN  [i \in 1..Len(gs) |->
            LET ks == sorted_keys(config[gs[i]])
            IN  Group(gs[i],
                      [j \in 1..Len(ks) |-> Item(ks[j], config[gs[i]][ks[j]])])]

\* d[k] = v on a Python dict
SetKey(d, k, v) == [x \in (DOMAIN d) \cup {k} |-> IF x = k THEN v ELSE d[x]]

\* width and height assigned to each other's key
overlay_config_swapped(config_copy, width, height, fit) ==
    [config_copy EXCEPT !["globals"] =
        SetKey(SetKey(SetKey(@, "width", height), "height", width), "fit", fit)]

\* lines 269-271: the three assignments into config_copy["globals"]
overlay_config(config_copy, width, height, fit) ==
    [config_copy EXCEPT !["globals"] =
        SetKey(SetKey(SetKey(@, "width", width), "height", height), "fit", fit)]

(***************************************************************************)
(* Sequence Scanner.                                                       *)
(***************************************************************************)
\* the characters of file names, in code-point order
CharOrder == <<".", "A", "a", "b", "e", "g", "n", "p", "r", "t", "x">>

CharRank(c) == CHOOSE i \in DOMAIN CharOrder : CharOrder[i] = c

\* str.lower() on one character
lower_char(c) == IF c = "A" THEN "a" ELSE c

lower(s) == [i \in 1..Len(s) |-> lower_char(s[i])]

endswith(s, suffix) ==
    /\ Len(suffix) <= Len(s)
    /\ SubSeq(s, Len(s) - Len(suffix) + 1, Len(s)) = suffix

RECURSIVE LexLess(_, _)
\* a < b on Python strings
LexLess(a, b) ==
    IF Len(a) = 0 THEN Len(b) > 0
    ELSE IF Len(b) = 0 THEN FALSE
    ELSE IF a[1] = b[1] THEN LexLess(Tail(a), Tail(b))
    ELSE CharRank(a[1]) < CharRank(b[1])

RECURSIVE SetToSeq(_)
\* the elements of a set in some order (os.listdir promises none)
SetToSeq(S) ==
    IF S = {} THEN <<>>
    ELSE LET x == CHOOSE y \in S : TRUE IN <<x>> \o SetToSeq(S \ {x})

\* the default of globals.input_image_formats in line 173
DefaultExts ==
    << <<"e", "x", "r">>, <<"t", "i", "f">>, <<"t", "i", "f", "f">>,
       <<"p", "n", "g">>, <<"j", "p", "g">>, <<"j", "p", "e", "g">> >>

\* the folders the operator can name, and what os.listdir gives for the
\* ones that exist ("", the text of an untouched field, does not)
FolderTexts == {"", "shots", "empty"}

Dirs ==
    [shots |-> { <<"b", ".", "e", "x", "r">>, <<"A", ".", "p", "n", "g">>,
                 <<"a", ".", "t", "x", "t">> },
     empty |-> { <<"a", ".", "t", "x", "t">> }]

isdir(folder) == folder \in DOMAIN Dirs

\* the names a file put into a folder may have: with and without an accepted
\* extension, upper and lower case, an extension with no dot before it, an
\* extension that is not at the end
FileNames ==
    { <<"b", ".", "e", "x", "r">>, <<"A", ".", "p", "n", "g">>,
      <<"a", ".", "t", "x", "t">>, <<"e", "x", "r">>,
      <<"a", ".", "e", "x", "r", ".", "t", "x", "t">>,
      <<"a", "b", ".", "p", "n", "g">> }

\* globals.input_image_formats as a configuration file may give it; the
\* document without the key leaves the default of line 173
FormatLists ==
    << << <<"e", "x", "r">>, <<"p", "n", "g">> >>,
       << <<"p", "n", "g">>, <<"e", "x", "r">> >>,
       << <<"t", "x", "t">>, <<"p", "n", "g">>, <<"t", "x", "t">> >>,
       << >> >>

ScanDocs ==
    [i \in 1..(Len(FormatLists) + 1) |->
        IF i > Len(FormatLists)
        THEN << Group("globals", << Item("output_codec", "h264") >>) >>
        ELSE << Group("globals",
                      << Item("input_image_formats", FormatLists[i]) >>) >>]

\* os.listdir(folder): the names, or the exception it raises for a folder
\* that does not exist
listdir(listings, folder) ==
    IF isdir(folder) THEN [raised |-> "", names |-> listings[folder]]
    ELSE [raised |-> "FileNotFoundError", names |-> {}]

RECURSIVE collect_files(_, _)
\* lines 174-176: files += [f for f in listing if f.lower().endswith(ext)],
\* for each ext in turn
collect_files(listing, exts) ==
    IF Len(exts) = 0 THEN <<>>
    ELSE SetToSeq({f \in listing : endswith(lower(f), exts[1])})
         \o collect_files(listing, Tail(exts))

\* the first file found, in the order of the extension list
find_first_image_unsorted(listing, exts) ==
    LET files == collect_files(listing, exts)
    IN  IF Len(files) > 0 THEN files[1] ELSE <<>>

\* find_first_image on a folder whose listing is given; <<>> is None.  The
\* folder prefix os.path.join adds is the same for every file, so the order
\* of the paths is the order of the names.
find_first_image(listing, exts) ==
    LET files == SortSeq(collect_files(listing, exts), LexLess)
    IN  IF Len(files) > 0 THEN files[1] ELSE <<>>

\* self.config.get("globals", {}).get("input_image_formats", default)
input_image_formats(config) ==
    IF "globals" \in DOMAIN config
       /\ "input_image_formats" \in DOMAIN config["globals"]
    THEN config["globals"]["input_image_formats"]
    ELSE DefaultExts

(***************************************************************************)
(* Dimension Sync Engine.                                                  *)
(*                                                                         *)
(* A spin box pair is a record [w, h]; the flags and the input dimensions  *)
(* are a record [dims, keep_ar, fit], dims = <<>> while unknown.           *)
(* QSpinBox.setValue clamps to the range and notifies valueChanged only    *)
(* when the value changed and signals are not blocked; the notification    *)
(* calls sync_output_dim synchronously with the spin box as sender.        *)
(***************************************************************************)
Clamp(v) == IF v < SpinMin THEN SpinMin ELSE IF v > SpinMax THEN SpinMax ELSE v

\* what get_image_dimensions reports for the first image of a folder: a
\* small frame, HD, a 2K full-aperture film scan, a frame of height 0
InputDims == {<<4, 2>>, <<1920, 1080>>, <<2048, 1556>>, <<3, 0>>}

\* aspect is a Python float (binary64).  For the dimensions of InputDims and
\* every v of the spin box range, int(v / aspect) is the floor of the exact
\* quotient, and int(v * aspect) is the floor of the exact product except
\* for the v listed here, where the exact product is an integer and the
\* float product lies just below it (1556 * (2048 / 1556) = 2047.99...).
MulBelow(dims) ==
    IF dims = <<2048, 1556>>
    THEN {389, 778, 1556, 2723, 3112, 5057, 5446, 5835, 6224, 9725, 10114,
          10503, 10892, 11281, 11670, 12059, 12448}
    ELSE {}

\* int(v * aspect) and int(v / aspect), aspect = in_w / in_h, or 1 if in_h = 0
MulAspect(v, dims) ==
    IF dims[2] # 0
    THEN (v * dims[1]) \div dims[2] - (IF v \in MulBelow(dims) THEN 1 ELSE 0)
    ELSE v

DivAspect(v, dims) == IF dims[2] # 0 THEN (v * dims[2]) \div dims[1] ELSE v

RECURSIVE sync_output_dim(_, _, _)
RECURSIVE out_width_setValue(_, _, _)
RECURSIVE out_height_setValue(_, _, _)

\* A pair that carries a field n counts in it the executions of
\* sync_output_dim.
sync_entered(d) == IF "n" \in DOMAIN d THEN [d EXCEPT !.n = @ + 1] ELSE d

\* out_width.setValue(v) with signals not blocked
out_width_setValue(d, v, g) ==
    IF Clamp(v) = d.w THEN d
    ELSE sync_output_dim("out_width", [d EXCEPT !.w = Clamp(v)], g)

\* out_height.setValue(v) with signals not blocked
out_height_setValue(d, v, g) ==
    IF Clamp(v) = d.h THEN d
    ELSE sync_output_dim("out_height", [d EXCEPT !.h = Clamp(v)], g)

\* lines 216-233
sync_output_dim(sender, d0, g) ==
    LET d == sync_entered(d0)
    IN
    IF g.dims = <<>> THEN d
    ELSE LET d1 == IF ~g.keep_ar THEN d
                   ELSE IF sender = "out_width"
                        THEN [d EXCEPT !.h = Clamp(DivAspect(d.w, g.dims))]
                   ELSE IF sender = "out_height" \/ g.fit
                        THEN [d EXCEPT !.w = Clamp(MulAspect(d.h, g.dims))]
                   ELSE d
         IN  IF g.fit
             THEN LET d2 == out_height_setValue(d1, g.dims[2], g)
                  IN  out_width_setValue(d2, MulAspect(g.dims[2], g.dims), g)
             ELSE d1

(***************************************************************************)
(* Files.                                                                  *)
(***************************************************************************)
\* CONFIG_FILE, line 9
CONFIG_FILE == <<"dailies-config.yaml", 0>>

\* the names tempfile.NamedTemporaryFile(suffix=".yaml") can produce
TempPaths == {<<"tmp.yaml", i>> : i \in 1..MaxRuns}

Paths == {CONFIG_FILE} \cup TempPaths

NoFile == [exists |-> FALSE, doc |-> <<>>]

\* open(path, "w") followed by writing doc
WriteFile(files, path, doc) ==
    [files EXCEPT ![path] = [exists |-> TRUE, doc |-> doc]]

\* os.unlink(path) inside try/except: a missing file is ignored
unlink(files, path) ==
    IF path \in DOMAIN files THEN [files EXCEPT ![path] = NoFile] ELSE files

\* the overlay written over the base configuration
NamedTemporaryFile_base(files) == {CONFIG_FILE}

\* tempfile.NamedTemporaryFile(delete=False): the name of the file it
\* creates, which is the name of no existing file (O_EXCL).  Fresh names are
\* interchangeable, so the first free one stands for all of them; the set is
\* empty when the model has run out of names.
NamedTemporaryFile(files) ==
    LET free == {p \in TempPaths : ~files[p].exists}
    IN  {p \in free : \A q \in free : p[2] <= q[2]}

(***************************************************************************)
(* Signals.                                                                *)
(***************************************************************************)
\* frame and total emitted in the wrong order
ProgressEvent_swapped(frame, total, img_data) ==
    [sig |-> "progress", args |-> <<total, frame, img_data>>]

\* EncodeThread.progress, line 13
ProgressEvent(frame, total, img_data) ==
    [sig |-> "progress", args |-> <<frame, total, img_data>>]

\* EncodeThread.finished, line 14
RunResult(returncode, stdout, stderr) ==
    [sig |-> "finished", args |-> <<returncode, stdout, stderr>>]

\* a queue that hands out the newest entry first
emit_lifo(queue, event) == <<event>> \o queue

\* signal.emit from the worker thread to a slot of the main thread: a queued
\* connection, the call is posted at the end of the main thread's event queue
emit(queue, event) == Append(queue, event)

\* run() called directly: it executes in the caller
start_as_run == "main"

\* QThread.start(): run() executes in a new thread, not in the caller
start == "worker"

\* the exit codes of the child
ExitCodes == {0, 2}

(***************************************************************************)
(* State.                                                                  *)
(***************************************************************************)
VARIABLES
    \* DailyGUI
    config,            \* self.config, loaded once by load_config
    seq_folder,        \* seq_folder_edit.text()
    input_dimensions,  \* self.input_dimensions, <<>> is None
    input_dim_label,   \* input_dim_label.text(): "N/A" or the dimensions
    out,               \* [w, h]: out_width.value(), out_height.value()
    keep_ar,           \* keep_ar_chk.isChecked()
    scale_fit,         \* scale_fit_chk.isChecked()
    btn_enabled,       \* generate_btn.isEnabled()
    status_label,      \* status_label.text()
    progress_bar,      \* progress_bar.value()
    encode_thread_env, \* self.encode_thread.env["DAILIES_CONFIG"]
    \* the file system
    fs,                \* path -> [exists, doc]
    dirs,              \* folder -> the names os.listdir gives for it
    \* EncodeThread
    workerPc,          \* position of run()
    run_context,       \* the context that executes run()
    \* the child process and its pipes
    childPc,
    outTodo,           \* chunks the child still has to write to stdout
    outPipe,           \* chunks in the stdout pipe
    errPipe,           \* lines in the stderr pipe
    returncode,
    \* the main thread's event queue
    mainQueue,
    \* history of the current run
    errWritten,        \* every line the child wrote to stderr
    emitted,           \* every signal the worker emitted
    received,          \* every signal a slot handled
    runs               \* temp files created so far

gui == <<config, seq_folder, input_dimensions, input_dim_label, out, keep_ar,
         scale_fit, btn_enabled, status_label, progress_bar,
         encode_thread_env>>

proc == <<childPc, outTodo, outPipe, errPipe, returncode>>

hist == <<errWritten, emitted, received, runs>>

vars == <<gui, fs, dirs, workerPc, run_context, proc, mainQueue, hist>>

dims_ctx == [dims |-> input_dimensions, keep_ar |-> keep_ar, fit |-> scale_fit]

\* run() has been entered and has not returned or raised
WorkerActive == workerPc \in {"start", "loop", "communicate"}

\* the main thread is in its event loop: it is not the one executing run()
MainFree == ~(run_context = "main" /\ WorkerActive)

\* the state after DailyGUI.__init__ when the base configuration file holds
\* doc and the folders hold listings
InitWith(doc, listings) ==
    /\ fs = [p \in Paths |->
                IF p = CONFIG_FILE
                THEN [exists |-> TRUE, doc |-> doc] ELSE NoFile]
    /\ config = yaml_safe_load(doc)
    /\ dirs = listings
    /\ seq_folder = ""
    /\ input_dimensions = <<>>
    /\ input_dim_label = "N/A"
    /\ out = [w |-> SpinMin, h |-> SpinMin]
    /\ keep_ar = TRUE
    /\ scale_fit = FALSE
    /\ btn_enabled = TRUE
    /\ status_label = "Ready"
    /\ progress_bar = 0
    /\ encode_thread_env = <<>>
    /\ workerPc = "none"
    /\ run_context = "none"
    /\ childPc = "none"
    /\ outTodo = 0
    /\ outPipe = 0
    /\ errPipe = <<>>
    /\ returncode = 0
    /\ mainQueue = <<>>
    /\ errWritten = <<>>
    /\ emitted = <<>>
    /\ received = <<>>
    /\ runs = 0

Init == \E i \in DOMAIN BaseDocs : InitWith(BaseDocs[i], Dirs)

(***************************************************************************)
(* Operator actions on the widgets (slots run in the main thread).         *)
(***************************************************************************)
\* seq_folder_edit.editingFinished with text folder (also select_seq_folder):
\* update_input_dim, lines 189-202.  dims is what get_image_dimensions
\* returns for the first image.  os.listdir raises for a folder that does
\* not exist, which ends the slot.
update_input_dim(folder, dims) ==
    /\ MainFree
    /\ seq_folder' = folder
    /\ LET listing == listdir(dirs, folder)
       IN  IF listing.raised # ""
           THEN \* line 176 raises inside find_first_image, line 191
                UNCHANGED <<input_dimensions, input_dim_label, out>>
           ELSE IF find_first_image(listing.names,
                                    input_image_formats(config)) = <<>>
           THEN /\ input_dim_label' = "N/A"
                /\ UNCHANGED <<input_dimensions, out>>
           ELSE IF dims = <<>>
           THEN /\ input_dim_label' = "N/A"
                /\ UNCHANGED <<input_dimensions, out>>
           ELSE LET g == [dims_ctx EXCEPT !.dims = dims]
                IN  /\ input_dimensions' = dims
                    /\ input_dim_label' = "dims"
                    /\ out' = out_height_setValue(
                                  out_width_setValue(out, dims[1], g),
                                  dims[2], g)
    /\ UNCHANGED <<config, dirs, keep_ar, scale_fit, btn_enabled, status_label,
                   progress_bar, encode_thread_env, fs, workerPc, run_context,
                   proc, mainQueue, hist>>

\* codec_combo.currentTextChanged: update_output_dim, lines 211-214
update_output_dim ==
    /\ MainFree
    /\ "output_codecs" \in DOMAIN config
    /\ Cardinality(DOMAIN config["output_codecs"]) > 1
    /\ out' = IF input_dimensions = <<>> THEN out
              ELSE out_height_setValue(
                       out_width_setValue(out, input_dimensions[1], dims_ctx),
                       input_dimensions[2], dims_ctx)
    /\ UNCHANGED <<config, dirs, seq_folder, input_dimensions,
                   input_dim_label, keep_ar, scale_fit,
                   btn_enabled, status_label, progress_bar, encode_thread_env,
                   fs, workerPc, run_context, proc, mainQueue, hist>>

\* the operator sets out_width to v: out_width.valueChanged
out_width_edited(v) ==
    /\ MainFree
    /\ v # out.w
    /\ out' = out_width_setValue(out, v, dims_ctx)
    /\ UNCHANGED <<config, dirs, seq_folder, input_dimensions,
                   input_dim_label, keep_ar, scale_fit,
                   btn_enabled, status_label, progress_bar, encode_thread_env,
                   fs, workerPc, run_context, proc, mainQueue, hist>>

\* the operator sets out_height to v: out_height.valueChanged
out_height_edited(v) ==
    /\ MainFree
    /\ v # out.h
    /\ out' = out_height_setValue(out, v, dims_ctx)
    /\ UNCHANGED <<config, dirs, seq_folder, input_dimensions,
                   input_dim_label, keep_ar, scale_fit,
                   btn_enabled, status_label, progress_bar, encode_thread_env,
                   fs, workerPc, run_context, proc, mainQueue, hist>>

\* the operator toggles keep_ar_chk: keep_ar_chk.stateChanged
keep_ar_toggled ==
    /\ MainFree
    /\ keep_ar' = ~keep_ar
    /\ out' = sync_output_dim("keep_ar_chk", out,
                              [dims_ctx EXCEPT !.keep_ar = ~keep_ar])
    /\ UNCHANGED <<config, dirs, seq_folder, input_dimensions,
                   input_dim_label, scale_fit,
                   btn_enabled, status_label, progress_bar, encode_thread_env,
                   fs, workerPc, run_context, proc, mainQueue, hist>>

\* the operator toggles scale_fit_chk: scale_fit_chk.stateChanged
scale_fit_toggled ==
    /\ MainFree
    /\ scale_fit' = ~scale_fit
    /\ out' = sync_output_dim("scale_fit_chk", out,
                              [dims_ctx EXCEPT !.fit = ~scale_fit])
    /\ UNCHANGED <<config, dirs, seq_folder, input_dimensions,
                   input_dim_label, keep_ar,
                   btn_enabled, status_label, progress_bar, encode_thread_env,
                   fs, workerPc, run_context, proc, mainQueue, hist>>

(***************************************************************************)
(* The folders change under the program: os.listdir is called anew each    *)
(* time find_first_image runs.                                             *)
(***************************************************************************)
\* a file named name appears in folder
file_added(folder, name) ==
    /\ name \notin dirs[folder]
    /\ Cardinality(dirs[folder]) < MaxFiles
    /\ dirs' = [dirs EXCEPT ![folder] = @ \cup {name}]
    /\ UNCHANGED <<gui, fs, workerPc, run_context, proc, mainQueue, hist>>

\* the file named name disappears from folder
file_removed(folder, name) ==
    /\ name \in dirs[folder]
    /\ dirs' = [dirs EXCEPT ![folder] = @ \ {name}]
    /\ UNCHANGED <<gui, fs, workerPc, run_context, proc, mainQueue, hist>>

(***************************************************************************)
(* generate_daily, lines 249-293.                                          *)
(***************************************************************************)
\* the button left enabled during a run
setEnabled_left_on == TRUE

\* generate_btn.setEnabled(False), line 288
setEnabled_on_launch == FALSE

\* the button disabled before the overlay is written
setEnabled_before_overlay == FALSE

\* the button when an exception ends lines 265-274: line 288 has not run
setEnabled_on_abort == btn_enabled

\* the operator clicks generate_btn, which only an enabled button reports.
\* fault is what the environment does to the temp file: "tempfile" makes
\* NamedTemporaryFile raise, "dump" makes yaml.safe_dump raise before any of
\* the document has reached the file.
generate_daily(fault) ==
    /\ MainFree
    /\ btn_enabled
    /\ IF ~isdir(seq_folder) THEN UNCHANGED vars
       ELSE IF find_first_image(listdir(dirs, seq_folder).names,
                                input_image_formats(config)) = <<>>
            THEN UNCHANGED vars
       ELSE IF fault = "tempfile" THEN UNCHANGED vars
       ELSE /\ runs < MaxRuns
            /\ \E temp_config_path \in NamedTemporaryFile(fs) :
                 LET created     == WriteFile(fs, temp_config_path, <<>>)
                     config_copy == yaml_safe_load(fs[CONFIG_FILE].doc)
                     width       == out.w
                     height      == out.h
                     fit         == scale_fit
                     doc         == yaml_safe_dump(
                                        overlay_config(config_copy, width,
                                                       height, fit))
                 IN  /\ runs' = runs + 1
                     /\ IF "globals" \notin DOMAIN config_copy
                        THEN \* KeyError in line 269
                             /\ fs' = created
                             /\ btn_enabled' = setEnabled_on_abort
                             /\ UNCHANGED <<config, seq_folder,
                                            input_dimensions, input_dim_label,
                                            out, keep_ar, scale_fit,
                                            status_label, progress_bar,
                                            encode_thread_env, dirs, workerPc,
                                            run_context, proc, mainQueue,
                                            errWritten, emitted, received>>
                        ELSE IF fault = "dump"
                        THEN \* OSError in line 273
                             /\ fs' = created
                             /\ btn_enabled' = setEnabled_on_abort
                             /\ UNCHANGED <<config, seq_folder,
                                            input_dimensions, input_dim_label,
                                            out, keep_ar, scale_fit,
                                            status_label, progress_bar,
                                            encode_thread_env, dirs, workerPc,
                                            run_context, proc, mainQueue,
                                            errWritten, emitted, received>>
                        ELSE /\ fs' = WriteFile(fs, temp_config_path, doc)
                             /\ status_label' = "Encoding..."
                             /\ progress_bar' = 0
                             /\ btn_enabled' = setEnabled_on_launch
                             /\ encode_thread_env' = temp_config_path
                             /\ workerPc' = "start"
                             /\ run_context' = start
                             /\ errWritten' = <<>>
                             /\ emitted' = <<>>
                             /\ received' = <<>>
                             /\ childPc' = "none"
                             /\ outTodo' = 0
                             /\ outPipe' = 0
                             /\ errPipe' = <<>>
                             /\ returncode' = 0
                             /\ UNCHANGED <<config, dirs, seq_folder,
                                            input_dimensions, input_dim_label,
                                            out, keep_ar, scale_fit,
                                            mainQueue>>

(***************************************************************************)
(* EncodeThread.run, lines 21-52.                                          *)
(***************************************************************************)
\* subprocess.Popen, lines 23-30: the child starts with some amount of
\* standard output to write, or Popen raises and run() ends
Popen ==
    /\ workerPc = "start"
    /\ \/ /\ workerPc' = "loop"
          /\ childPc' = "running"
          /\ \E n \in 0..MaxOutChunks : outTodo' = n
       \/ /\ workerPc' = "crashed"
          /\ UNCHANGED <<childPc, outTodo>>
    /\ UNCHANGED <<gui, dirs, fs, run_context, outPipe, errPipe, returncode,
                   mainQueue, hist>>

\* one pass of the loop, lines 36-49.  readline blocks while the pipe is
\* empty and open; it returns "" once the child has closed its end.
readline_loop ==
    /\ workerPc = "loop"
    /\ \/ /\ errPipe # <<>>
          /\ errPipe' = Tail(errPipe)
          /\ LET m == ParseLine(AllLines[Head(errPipe)])
             IN  IF m.ok
                 THEN /\ mainQueue' = emit(mainQueue,
                             ProgressEvent(m.frame, m.total, m.img_data))
                      /\ emitted' = Append(emitted,
                             ProgressEvent(m.frame, m.total, m.img_data))
                 ELSE UNCHANGED <<mainQueue, emitted>>
          /\ UNCHANGED workerPc
       \/ \* not line and process.poll() is not None: break
          /\ errPipe = <<>>
          /\ childPc = "exited"
          /\ workerPc' = "communicate"
          /\ UNCHANGED <<errPipe, mainQueue, emitted>>
       \/ \* not line: msleep(5); continue
          /\ errPipe = <<>>
          /\ childPc = "closed"
          /\ UNCHANGED <<workerPc, errPipe, mainQueue, emitted>>
    /\ UNCHANGED <<gui, dirs, fs, run_context, childPc, outTodo, outPipe,
                   returncode, errWritten, received, runs>>

\* lines 51-52: communicate() drains what is left in both pipes, then, if
\* emits, the finished signal is emitted; run() returns
communicate_then(emits) ==
    /\ workerPc = "communicate"
    /\ childPc = "exited"
    /\ LET stdout == outPipe
           stderr == errPipe
       IN  IF emits
           THEN /\ mainQueue' = emit(mainQueue,
                                     RunResult(returncode, stdout, stderr))
                /\ emitted' = Append(emitted,
                                     RunResult(returncode, stdout, stderr))
           ELSE UNCHANGED <<mainQueue, emitted>>
    /\ outPipe' = 0
    /\ errPipe' = <<>>
    /\ workerPc' = "done"
    /\ UNCHANGED <<gui, dirs, fs, run_context, childPc, outTodo, returncode,
                   errWritten, received, runs>>

\* a run() that reports only a successful child
communicate_if_success == communicate_then(returncode = 0)

\* line 52 is unconditional
communicate == communicate_then(TRUE)

(***************************************************************************)
(* The child process (the external encoder).                               *)
(***************************************************************************)
\* the child writes one line to its error stream
child_write_stderr(l) ==
    /\ childPc = "running"
    /\ Len(errWritten) < MaxErrLines
    /\ errPipe' = Append(errPipe, l)
    /\ errWritten' = Append(errWritten, l)
    /\ UNCHANGED <<gui, dirs, fs, workerPc, run_context, childPc, outTodo,
                   outPipe,
                   returncode, mainQueue, emitted, received, runs>>

\* the child writes one chunk to its standard output; the write blocks while
\* the pipe is full
child_write_stdout ==
    /\ childPc = "running"
    /\ outTodo > 0
    /\ outPipe < PipeCap
    /\ outPipe' = outPipe + 1
    /\ outTodo' = outTodo - 1
    /\ UNCHANGED <<gui, dirs, fs, workerPc, run_context, childPc, errPipe,
                   returncode, mainQueue, hist>>

\* the child has written its output and closes its streams on the way out
child_close(code) ==
    /\ childPc = "running"
    /\ outTodo = 0
    /\ childPc' = "closed"
    /\ returncode' = code
    /\ UNCHANGED <<gui, dirs, fs, workerPc, run_context, outTodo, outPipe,
                   errPipe,
                   mainQueue, hist>>

\* the child has terminated: poll() no longer returns None
child_exit ==
    /\ childPc = "closed"
    /\ childPc' = "exited"
    /\ UNCHANGED <<gui, dirs, fs, workerPc, run_context, outTodo, outPipe,
                   errPipe,
                   returncode, mainQueue, hist>>

(***************************************************************************)
(* Slots the main thread runs for the worker's signals.                    *)
(***************************************************************************)
\* QProgressBar.setValue ignores a value outside 0..100
progress_bar_setValue(old, v) == IF v \in 0..100 THEN v ELSE old

\* on_progress, lines 295-300
on_progress ==
    /\ MainFree
    /\ mainQueue # <<>>
    /\ Head(mainQueue).sig = "progress"
    /\ LET frame   == Head(mainQueue).args[1]
           total   == Head(mainQueue).args[2]
           percent == IF total # 0 THEN (frame * 100) \div total ELSE 0
       IN  progress_bar' = progress_bar_setValue(progress_bar, percent)
    /\ status_label' = "Frame"
    /\ mainQueue' = Tail(mainQueue)
    /\ received' = Append(received, Head(mainQueue))
    /\ UNCHANGED <<config, dirs, seq_folder, input_dimensions,
                   input_dim_label, out, keep_ar,
                   scale_fit, btn_enabled, encode_thread_env, fs, workerPc,
                   run_context, proc, errWritten, emitted, runs>>

\* every result reported as a success
status_always_success(retcode) == "Success!"

\* the text on_finished puts into status_label, lines 305-310
status_of(retcode) == IF retcode = 0 THEN "Success!" ELSE "Failed"

\* on_finished, lines 302-316
on_finished ==
    /\ MainFree
    /\ mainQueue # <<>>
    /\ Head(mainQueue).sig = "finished"
    /\ btn_enabled' = TRUE
    /\ status_label' = status_of(Head(mainQueue).args[1])
    /\ progress_bar' = 0
    /\ fs' = unlink(fs, encode_thread_env)
    /\ mainQueue' = Tail(mainQueue)
    /\ received' = Append(received, Head(mainQueue))
    /\ UNCHANGED <<config, dirs, seq_folder, input_dimensions,
                   input_dim_label, out, keep_ar,
                   scale_fit, encode_thread_env, workerPc, run_context, proc,
                   errWritten, emitted, runs>>

(***************************************************************************)
(* Specifications.                                                         *)
(*                                                                         *)
(* Spec is the orchestration of runs: the operator names folders, toggles  *)
(* the fit flag and presses Generate while the worker, the child and the   *)
(* slots take their steps.  The image-metadata probe reports nothing, so   *)
(* the spin boxes keep their values.                                       *)
(*                                                                         *)
(* SpecOverlay is the operator editing every field that reaches the        *)
(* overlay, with a child that writes nothing before it exits.              *)
(***************************************************************************)
Operator ==
    \/ \E f \in FolderTexts : update_input_dim(f, <<>>)
    \/ scale_fit_toggled
    \/ \E fault \in {"none", "tempfile", "dump"} : generate_daily(fault)

Worker ==
    \/ Popen
    \/ readline_loop
    \/ communicate

Next ==
    \/ Operator
    \/ Worker
    \/ \E l \in LineIds : child_write_stderr(l)
    \/ child_write_stdout
    \/ \E code \in ExitCodes : child_close(code)
    \/ child_exit
    \/ on_progress
    \/ on_finished

Spec == Init /\ [][Next]_vars

NextOverlay ==
    \/ Operator
    \/ \E v \in 1..MaxEdit : out_width_edited(v)
    \/ \E v \in 1..MaxEdit : out_height_edited(v)
    \/ Worker
    \/ \E code \in ExitCodes : child_close(code)
    \/ child_exit
    \/ on_finished

SpecOverlay == Init /\ [][NextOverlay]_vars

\* SpecProtocol is live monitoring with a child that writes any line of
\* AllLines to its error stream and nothing to its standard output.
InitProtocol == InitWith(BaseDocs[1], Dirs)

NextProtocol ==
    \/ update_input_dim("shots", <<>>)
    \/ generate_daily("none")
    \/ Worker
    \/ \E l \in DOMAIN AllLines : child_write_stderr(l)
    \/ \E code \in ExitCodes : child_close(code)
    \/ child_exit
    \/ on_progress
    \/ on_finished

SpecProtocol == InitProtocol /\ [][NextProtocol]_vars

\* the steps the child takes on its own once its output is taken
ChildLeaves ==
    \/ child_write_stdout
    \/ \E code \in ExitCodes : child_close(code)
    \/ child_exit

\* the event loop of the main thread delivers the signal at the head of its
\* queue
Slots == on_progress \/ on_finished

\* SpecFair is Spec with the scheduling the program relies on: the worker
\* thread takes its next step when it can, the child, a sequential process,
\* writes to its standard output and leaves when it can, and the event loop
\* delivers a queued signal.  Nothing obliges the operator to act or the
\* child to write to its error stream.
Fairness ==
    /\ WF_vars(Worker)
    /\ WF_vars(ChildLeaves)
    /\ WF_vars(Slots)

SpecFair == Spec /\ Fairness

\* what get_image_dimensions returns for the first image of a folder
ProbeDims == {<<>>, <<4, 2>>}

\* SpecScan is the Sequence Scanner at work: the operator names folders
\* whose content changes between the scans, under configurations with
\* different extension lists.
InitScan ==
    \E i \in DOMAIN ScanDocs :
        \E listing \in SUBSET FileNames :
            /\ Cardinality(listing) <= MaxFiles
            /\ InitWith(ScanDocs[i], [Dirs EXCEPT !.shots = listing])

NextScan ==
    \/ \E f \in FolderTexts : \E dims \in ProbeDims : update_input_dim(f, dims)
    \/ \E name \in FileNames : file_added("shots", name)
    \/ \E name \in FileNames : file_removed("shots", name)

SpecScan == InitScan /\ [][NextScan]_vars

\* the values the operator types into a spin box
EditVals == (1..MaxEdit) \cup {540, 960, 1556, 2048}

\* SpecDims is the Dimension Sync Engine at work: the operator names the
\* folder, whose first image has any of InputDims, edits both spin boxes,
\* toggles both flags and changes the codec.
InitDims == InitWith(BaseDocs[1], Dirs)

NextDims ==
    \/ \E dims \in InputDims : update_input_dim("shots", dims)
    \/ update_output_dim
    \/ \E v \in EditVals : out_width_edited(v)
    \/ \E v \in EditVals : out_height_edited(v)
    \/ keep_ar_toggled
    \/ scale_fit_toggled

SpecDims == InitDims /\ [][NextDims]_vars

(***************************************************************************)
(* Properties.                                                             *)
(***************************************************************************)
\* the progress signals of a history, in order
ProgressOf(h) == SelectSeq(h, LAMBDA e : e.sig = "progress")

FinishedEmits == Cardinality({i \in DOMAIN emitted : emitted[i].sig = "finished"})

\* the slot on_finished has handled the RunResult of the current run
Resolved == received # <<>> /\ received[Len(received)].sig = "finished"

\* the child was launched: Popen returned a process handle
Launched == workerPc \in {"loop", "communicate", "done"}

\* a run is between its launch by generate_daily and the handling of its
\* RunResult
RunUnresolved == WorkerActive \/ (workerPc = "done" /\ ~Resolved)

IsPrefix(a, b) == Len(a) <= Len(b) /\ a = SubSeq(b, 1, Len(a))

\* what the protocol of section 6 makes of each line of ErrLines: the events
\* of the two progress lines, nothing for the third
ProtocolEvents ==
    << << [sig |-> "progress", args |-> <<1, 2, <<"A">>>>] >>,
       << [sig |-> "progress", args |-> <<2, 2, <<"B">>>>] >>,
       << >> >>

RECURSIVE ExpectedEvents(_)
ExpectedEvents(lines) ==
    IF Len(lines) = 0 THEN <<>>
    ELSE ProtocolEvents[Head(lines)] \o ExpectedEvents(Tail(lines))

C2_ResultAfterProgress ==
    \A i \in DOMAIN received :
        received[i].sig = "finished" =>
            /\ i = Len(received)
            /\ childPc = "exited"
            /\ ProgressOf(received) = ProgressOf(emitted)
            /\ mainQueue = <<>>

C2_Witness ==
    /\ Resolved
    /\ Len(received) = 3
    /\ childPc = "exited"

\* C3: the progress signals handled by on_progress are, in order, the events
\* of the protocol-matching lines the child wrote, one per line; when the run
\* is resolved none is missing and the RunResult carries the child's exit
\* code.
C3_ProgressInOrder ==
    /\ IsPrefix(ProgressOf(received), ExpectedEvents(errWritten))
    /\ Resolved =>
          /\ ProgressOf(received) = ExpectedEvents(errWritten)
          /\ Len(received) = Len(ExpectedEvents(errWritten)) + 1
          /\ received[Len(received)].args[1] = returncode

C3_Witness ==
    /\ errWritten = <<1, 2>>
    /\ Resolved
    /\ Len(received) = 3
    /\ received[1].args[1] = 1
    /\ received[2].args[1] = 2
    /\ received[3].args[1] = 0

\* C4: generate_daily starts a run only when no run is unresolved, and the
\* Generate button is disabled for as long as a run is unresolved.
C4_OneWorker ==
    [][ /\ (workerPc' = "start" /\ runs' # runs) => ~RunUnresolved
        /\ RunUnresolved => ~btn_enabled ]_vars

\* a second run has been started after the first one was resolved and its
\* overlay removed
C4_Witness ==
    /\ workerPc = "start"
    /\ runs = 2
    /\ encode_thread_env = <<"tmp.yaml", 1>>
    /\ \A p \in TempPaths : fs[p].exists <=> p = encode_thread_env

\* C5: the stderr text of a run's RunResult contains every line the child
\* wrote to its error stream that is not a protocol line.
C5_StderrKeepsNonProtocolLines ==
    Resolved =>
        \A i \in DOMAIN errWritten :
            ProtocolEvents[errWritten[i]] = <<>> =>
                \E j \in DOMAIN received[Len(received)].args[3] :
                    received[Len(received)].args[3][j] = errWritten[i]

\* C6: when Popen fails, run() still ends with a RunResult emitted and no
\* progress signal.
C6_LaunchFailureSurfaced ==
    workerPc = "crashed" =>
        /\ FinishedEmits = 1
        /\ ProgressOf(emitted) = <<>>

\* C7: while a run is launching or running the main thread is in its event
\* loop: it can handle an operator event, and a progress signal when one is
\* queued.
C7_MainNotBlocked ==
    WorkerActive =>
        /\ MainFree
        /\ ENABLED scale_fit_toggled
        /\ (mainQueue # <<>> /\ Head(mainQueue).sig = "progress")
               => ENABLED on_progress

\* the main thread handled a progress signal while the child was running
C7_Witness ==
    /\ workerPc = "loop"
    /\ childPc = "running"
    /\ Len(received) = 1
    /\ mainQueue # <<>>

\* C8: no step changes the base configuration file.
C8_BaseUntouched == [][fs'[CONFIG_FILE] = fs[CONFIG_FILE]]_vars

\* a run has been resolved and its overlay removed, the base file is there
C8_Witness ==
    /\ Resolved
    /\ runs > 0
    /\ ~fs[encode_thread_env].exists
    /\ fs[CONFIG_FILE].exists
    /\ fs[CONFIG_FILE].doc # <<>>

\* C9: the overlay generate_daily writes when it starts a run, read back, has
\* globals.width, globals.height and globals.fit equal to the values of the
\* widgets, and every other key of every group as in the base configuration,
\* with no key added or lost.
C9_OverlayValues ==
    [][ (workerPc' = "start" /\ runs' # runs) =>
          LET base    == yaml_safe_load(fs[CONFIG_FILE].doc)
              overlay == yaml_safe_load(fs'[encode_thread_env'].doc)
              set     == {"width", "height", "fit"}
          IN  /\ overlay["globals"]["width"] = out.w
              /\ overlay["globals"]["height"] = out.h
              /\ overlay["globals"]["fit"] = scale_fit
              /\ DOMAIN overlay = DOMAIN base
              /\ DOMAIN overlay["globals"] = DOMAIN base["globals"] \cup set
              /\ \A g \in DOMAIN base :
                    /\ g # "globals" => overlay[g] = base[g]
                    /\ \A k \in DOMAIN base[g] :
                          (g # "globals" \/ k \notin set)
                              => overlay[g][k] = base[g][k] ]_vars

\* an overlay with width 2, height 1 and fit set, next to the base's own keys
C9_Witness ==
    /\ workerPc = "start"
    /\ fs[encode_thread_env].exists
    /\ LET overlay == yaml_safe_load(fs[encode_thread_env].doc)
       IN  /\ overlay["globals"]["width"] = 2
           /\ overlay["globals"]["height"] = 1
           /\ overlay["globals"]["fit"] = TRUE
           /\ overlay["globals"]["output_codec"] = "h264"
           /\ overlay["x_studio"]["note"] = "keep"

\* C10: the overlay file of a run exists from before the launch for as long
\* as the run is unresolved, and no overlay file exists when no run is
\* unresolved: after a run that completed, failed, failed to launch or was
\* aborted before launch.
C10_OverlayLifecycle ==
    /\ RunUnresolved => fs[encode_thread_env].exists
    /\ ~RunUnresolved => \A p \in TempPaths : ~fs[p].exists

\* a step of generate_daily that created the temp file and ended with an
\* exception before the overlay was written
OverlayAborted ==
    /\ runs' # runs
    /\ \E p \in TempPaths :
          ~fs[p].exists /\ fs'[p].exists /\ fs'[p].doc = <<>>

\* C11: when generate_daily fails to write the overlay (the configuration
\* copy has no globals group, or the dump fails), no worker is started, no
\* child is launched, no signal is emitted, queued or handled, and the
\* Generate button is still enabled with the main thread in its event loop.
C11_AbortBeforeLaunch ==
    [][ OverlayAborted =>
          /\ workerPc' = workerPc
          /\ ~WorkerActive'
          /\ childPc' = childPc
          /\ emitted' = emitted
          /\ received' = received
          /\ mainQueue' = mainQueue
          /\ btn_enabled'
          /\ MainFree' ]_vars

\* an attempt has been aborted after a run was resolved: its empty temp file
\* is there, no worker is active and the button is enabled
C11_Witness ==
    /\ runs = 2
    /\ Resolved
    /\ fs[<<"tmp.yaml", 1>>].exists
    /\ fs[<<"tmp.yaml", 1>>].doc = <<>>
    /\ ~WorkerActive
    /\ btn_enabled

\* some extension of exts ends the lower-cased name
Qualifies(name, exts) ==
    \E i \in DOMAIN exts : endswith(lower(name), exts[i])

\* the smallest qualifying name of a listing in the order of Python strings,
\* <<>> when none qualifies
SmallestQualifying(listing, exts) ==
    LET Q == {f \in listing : Qualifies(f, exts)}
    IN  IF Q = {} THEN <<>>
        ELSE CHOOSE f \in Q : \A g \in Q : f = g \/ LexLess(f, g)

\* the extension lists that accept the same extensions as exts
SameFormats(exts) ==
    {FormatLists[i] : i \in {j \in DOMAIN FormatLists :
        {FormatLists[j][k] : k \in DOMAIN FormatLists[j]}
            = {exts[k] : k \in DOMAIN exts}}}
    \cup {[k \in DOMAIN exts |-> exts[Len(exts) + 1 - k]]}

\* C12: for the content of every folder and the configured extension list,
\* find_first_image gives the smallest name whose lower-cased form ends with
\* an accepted extension, or None when there is none; it gives the same for
\* the same extensions in another order, and the same when a name that does
\* not qualify is added to the folder.
C12_SmallestQualifying ==
    \A folder \in DOMAIN dirs :
        LET exts   == input_image_formats(config)
            result == find_first_image(dirs[folder], exts)
        IN  /\ result = SmallestQualifying(dirs[folder], exts)
            /\ \A other \in SameFormats(exts) :
                  find_first_image(dirs[folder], other) = result
            /\ \A name \in FileNames :
                  ~Qualifies(name, exts) =>
                      find_first_image(dirs[folder] \cup {name}, exts) = result

\* update_input_dim found the first image of a folder that holds two
\* qualifying files and one that does not qualify
C12_Witness ==
    /\ seq_folder = "shots"
    /\ input_dim_label = "dims"
    /\ dirs["shots"] = { <<"b", ".", "e", "x", "r">>,
                         <<"A", ".", "p", "n", "g">>,
                         <<"a", ".", "t", "x", "t">> }
    /\ input_image_formats(config)[1] = <<"e", "x", "r">>
    /\ find_first_image(dirs["shots"], input_image_formats(config))
           = <<"A", ".", "p", "n", "g">>

\* C13: when the folder named in the sequence-folder field does not exist,
\* update_input_dim has taken its no-match path: the label reads N/A.
C13_MissingFolderIsNoMatch ==
    ~isdir(seq_folder) => input_dim_label = "N/A"

\* the input dimensions are known and the input height is positive
DimsKnown == input_dimensions # <<>> /\ input_dimensions[2] > 0

\* floor(v * aspect) and floor(v / aspect) for aspect = in_w / in_h, as the
\* numbers they are
FloorMul(v, dims) == (v * dims[1]) \div dims[2]

FloorDiv(v, dims) == (v * dims[2]) \div dims[1]

\* C14: whenever the input dimensions are known (with a positive height)
\* and fit-to-height is enabled, the output height is the input height and
\* the output width is floor(input height * aspect), after every trigger and
\* with aspect-lock on or off.
C14_FitToHeight ==
    (DimsKnown /\ scale_fit) =>
        /\ out.h = input_dimensions[2]
        /\ out.w = FloorMul(input_dimensions[2], input_dimensions)

\* C15: with the input dimensions known, aspect-lock on and fit-to-height
\* off, a width edit to w leaves the width w and makes the height
\* floor(w / aspect), a height edit to h leaves the height h and makes the
\* width floor(h * aspect), each brought into the range of the spin box.
C15_AspectLockedEdit ==
    [][ (DimsKnown /\ keep_ar /\ ~scale_fit) =>
          \A v \in EditVals :
              /\ out_width_edited(v) =>
                    out' = [w |-> v,
                            h |-> Clamp(FloorDiv(v, input_dimensions))]
              /\ out_height_edited(v) =>
                    out' = [w |-> Clamp(FloorMul(v, input_dimensions)),
                            h |-> v] ]_vars

\* the spin boxes with a counter of the executions of sync_output_dim
Counted == [w |-> out.w, h |-> out.h, n |-> 0]

\* C17: with the input dimensions known, every trigger the operator can
\* make (an edit of the width or of the height, a toggle of either flag)
\* makes sync_output_dim execute exactly once.
C17_SyncRunsOnce ==
    DimsKnown =>
        /\ \A v \in EditVals \ {out.w} :
              out_width_setValue(Counted, v, dims_ctx).n = 1
        /\ \A v \in EditVals \ {out.h} :
              out_height_setValue(Counted, v, dims_ctx).n = 1
        /\ sync_output_dim("keep_ar_chk", Counted,
                           [dims_ctx EXCEPT !.keep_ar = ~keep_ar]).n = 1
        /\ sync_output_dim("scale_fit_chk", Counted,
                           [dims_ctx EXCEPT !.fit = ~scale_fit]).n = 1

\* C20: when update_input_dim has read the dimensions of the first image
\* (with a positive height), the output width and height are the input
\* width and height, whatever they were before and whatever the flags are.
C20_ResetToInput ==
    [][ \A dims \in InputDims :
          (dims[2] > 0 /\ update_input_dim("shots", dims)) =>
              out' = [w |-> dims[1], h |-> dims[2]] ]_vars

\* C16: a run whose child was launched is eventually resolved, on_finished
\* having handled its RunResult and enabled the Generate button, whatever
\* the child writes to its standard output.
C16_RunResolves == (workerPc = "loop") ~> (Resolved /\ btn_enabled)

\* what the protocol of section 6 makes of each line of OddLines: an event
\* only for a line of exactly the shape, with the payload up to the newline
OddProtocolEvents ==
    << << >>,
       << [sig |-> "progress", args |-> <<1, 2, <<"A", " ">>>>] >>,
       << [sig |-> "progress", args |-> <<3, 0, <<"C">>>>] >>,
       << [sig |-> "progress",
           args |-> <<12, 240, <<"A", "A", "A", "A", "=", "=">>>>] >>,
       << >>,
       << >>,
       << >>,
       << >> >>

AllProtocolEvents == ProtocolEvents \o OddProtocolEvents

RECURSIVE ExpectedOfAll(_)
ExpectedOfAll(lines) ==
    IF Len(lines) = 0 THEN <<>>
    ELSE AllProtocolEvents[Head(lines)] \o ExpectedOfAll(Tail(lines))

\* the lines the worker has read from the error stream
LinesRead == SubSeq(errWritten, 1, Len(errWritten) - Len(errPipe))

\* C18: the progress signals the worker has emitted are, in order, the
\* events of the lines it has read that have exactly the shape of the
\* protocol, each with the line's two integers and its payload unchanged;
\* a line of any other shape, also one with a character before the token,
\* has no event.
C18_ExactShape ==
    workerPc \in {"loop", "communicate"} =>
        ProgressOf(emitted) = ExpectedOfAll(LinesRead)

\* the state of the run as the window shows it: Launching from the start of
\* the thread until Popen has returned the child, Running until on_finished
\* has handled the RunResult, then what on_finished wrote into status_label
RunState ==
    IF workerPc = "none" THEN "Idle"
    ELSE IF workerPc \in {"start", "crashed"} THEN "Launching"
    ELSE IF ~Resolved THEN "Running"
    ELSE IF status_label = "Success!" THEN "Succeeded"
    ELSE "Failed"

\* C19: the state of a run changes only from Idle to Launching, from
\* Launching to Running and from Running to Succeeded or Failed; it is
\* Succeeded exactly when the child's exit code is 0; a run that is
\* Succeeded or Failed stays so until a step of generate_daily, taken on the
\* operator's click, starts the next run, and no other step starts a run.
C19_RunStateForward ==
    [][ /\ RunState' # RunState =>
              <<RunState, RunState'>> \in
                  { <<"Idle", "Launching">>, <<"Launching", "Running">>,
                    <<"Running", "Succeeded">>, <<"Running", "Failed">>,
                    <<"Succeeded", "Launching">>, <<"Failed", "Launching">> }
        /\ RunState' = "Succeeded" => returncode' = 0
        /\ RunState' = "Failed" => returncode' # 0
        /\ (workerPc' = "start" /\ workerPc # "start") =>
              /\ btn_enabled
              /\ generate_daily("none") ]_vars

\* a second run has failed after a first one succeeded
C19_Witness ==
    /\ RunState = "Failed"
    /\ returncode = 2
    /\ runs = 2
    /\ ~fs[<<"tmp.yaml", 2>>].exists
    /\ received[Len(received)].args[1] = 2

\* C21: whenever the input dimensions are known (with a positive height)
\* and aspect-lock is on, the output pair has height = floor(width / aspect)
\* or width = floor(height * aspect), each brought into the range of the
\* spin box.
C21_AspectLocked ==
    (DimsKnown /\ keep_ar) =>
        \/ out.h = Clamp(FloorDiv(out.w, input_dimensions))
        \/ out.w = Clamp(FloorMul(out.h, input_dimensions))

\* C22: every progress signal the worker has emitted and every one
\* on_progress has handled has a current frame of at least 0 and a total of
\* more than 0.
C22_PositiveTotal ==
    \A h \in {emitted, received} :
        \A i \in DOMAIN h :
            h[i].sig = "progress" =>
                /\ h[i].args[1] >= 0
                /\ h[i].args[2] > 0

====
